---- MODULE Spec2Model ----
(***************************************************************************)
(* A model of lassie.core (src/lassie/core.py): the Lassie object, its     *)
(* fetch method and the three extraction passes _filter_meta_data,         *)
(* _filter_link_tag_data and _find_all_images.                             *)
(*                                                                         *)
(* Python values are tagged records: None, str (a sequence of characters,  *)
(* or of colon-separated segments for a meta property name), int, list.    *)
(* A dict is a function from its keys to values.                           *)
(***************************************************************************)
EXTENDS Integers, Sequences, FiniteSets, TLC

VARIABLES
    attrs,   \* the Lassie instance's option attributes (core.py 38-42)
    args,    \* the keyword arguments of the last fetch call
    opts,    \* fetch's locals after merge_settings (core.py 76-80)
    content, \* what _retreive_content produced for the last fetch
    ret,     \* what the last fetch returned
    nsets,   \* number of attribute assignments made on the instance
    soup,    \* the parsed document: a sequence of elements
    data,    \* the result dict the passes fill
    pc,      \* "idle", "meta" (inside _filter_meta_data's loop), "raised", "fetched"
    stage,   \* index in PassOrder of the next pass that may be invoked
    source,  \* _filter_meta_data's source argument
    html,    \* _filter_meta_data's list of matched elements
    i,       \* index in html of the element the loop handles next
    image,   \* _filter_meta_data's image accumulator
    video,   \* _filter_meta_data's video accumulator
    exc      \* the exception that ended the last call, "none" if none

vars == <<attrs, args, opts, content, ret, nsets, soup, data, pc, stage,
          source, html, i, image, video, exc>>

fetchVars == <<attrs, args, opts, content, ret, nsets>>
passVars == <<soup, data, stage, source, html, i, image, video>>

\* ------------------------------------------------------------ bounds
MaxTags == 2
MaxSets == 2

\* ------------------------------------------------------------ Python values
PyNone == [t |-> "None"]
PyStr(s) == [t |-> "str", s |-> s]
PyInt(n) == [t |-> "int", n |-> n]
PyList(l) == [t |-> "list", l |-> l]
PyBool(b) == [t |-> "bool", b |-> b]

Truthy(v) ==
    CASE v.t = "None" -> FALSE
      [] v.t = "str" -> v.s # <<>>
      [] v.t = "int" -> v.n # 0
      [] v.t = "list" -> v.l # <<>>
      [] v.t = "bool" -> v.b

\* a or b
PyOr(a, b) == IF Truthy(a) THEN a ELSE b

\* s.startswith(p) on sequences
StartsWith(s, p) == Len(p) <= Len(s) /\ SubSeq(s, 1, Len(p)) = p

EmptyDict == <<>>
Put(d, k, v) == [x \in DOMAIN d \cup {k} |-> IF x = k THEN v ELSE d[x]]
Has(d, k) == k \in DOMAIN d
NonEmpty(d) == DOMAIN d # {}

\* ------------------------------------------------------------ strings used
HTTP == <<"h", "t", "t", "p">>
WWW == <<"w", "w", "w">>
SchemeSep == <<":", "/", "/">>
PageUrl == HTTP \o SchemeSep \o <<"s", "/", "p">>
AbsImg == HTTP \o SchemeSep \o <<"c", "/", "i">>
RelImg == <<"/", "i">>
WwwImg == WWW \o <<".", "c">>

\* ------------------------------------------------------------ collaborators
\* utils.convert_to_int: an integer, or None when the value is no number.
Digits == <<"0", "1", "2", "3", "4", "5", "6", "7", "8", "9">>
IsDigit(c) == \E d \in 1..Len(Digits) : Digits[d] = c
DigitVal(c) == (CHOOSE d \in 1..Len(Digits) : Digits[d] = c) - 1

RECURSIVE Number(_)
Number(s) ==
    IF s = <<>> THEN 0
    ELSE 10 * Number(SubSeq(s, 1, Len(s) - 1)) + DigitVal(s[Len(s)])

convert_to_int(value) ==
    CASE value.t = "int" -> value
      [] value.t = "str" ->
            IF value.s # <<>> /\ \A k \in 1..Len(value.s) : IsDigit(value.s[k])
            THEN PyInt(Number(value.s))
            ELSE PyNone
      [] OTHER -> PyNone

\* str.split(','): the pieces between the commas.
RECURSIVE Split(_, _)
Split(s, cur) ==
    IF s = <<>> THEN <<cur>>
    ELSE IF Head(s) = "," THEN <<cur>> \o Split(Tail(s), <<>>)
    ELSE Split(Tail(s), Append(cur, Head(s)))

split(value) == PyList(Split(value.s, <<>>))

\* True when s holds the piece p starting at position k.
HasAt(s, p, k) == k + Len(p) - 1 <= Len(s) /\ SubSeq(s, k, k + Len(p) - 1) = p

HasScheme(s) == \E k \in 2..Len(s) : HasAt(s, SchemeSep, k) /\ \A j \in 1..(k - 1) : s[j] # "/"

\* scheme://host of an absolute URL.
Origin(base) ==
    LET k == CHOOSE k \in 2..Len(base) : HasAt(base, SchemeSep, k)
        rest == {j \in (k + 3)..Len(base) : base[j] = "/"}
    IN  IF rest = {} THEN base
        ELSE SubSeq(base, 1, (CHOOSE j \in rest : \A m \in rest : j <= m) - 1)

\* The URL up to and including the last "/" of its path.
Dir(base) ==
    LET o == Origin(base)
        slashes == {j \in (Len(o) + 1)..Len(base) : base[j] = "/"}
    IN  IF slashes = {} THEN o \o <<"/">>
        ELSE SubSeq(base, 1, CHOOSE j \in slashes : \A m \in slashes : m <= j)

\* compat.urljoin(base, url)
urljoin(base, url) ==
    IF ~Truthy(url) THEN base
    ELSE IF HasScheme(url.s) THEN url
    ELSE IF Head(url.s) = "/" THEN PyStr(Origin(base.s) \o url.s)
    ELSE PyStr(Dir(base.s) \o url.s)

\* An absolute URL string: begins with http:// or https://.
IsAbsolute(v) ==
    /\ v.t = "str"
    /\ \/ StartsWith(v.s, HTTP \o SchemeSep)
       \/ StartsWith(v.s, HTTP \o <<"s">> \o SchemeSep)

\* ------------------------------------------------------------ filters.FILTER_MAPS
OG == "og"
TW == "twitter"
MetaSources == {"open_graph", "twitter_card", "generic"}
LinkSources == {"touch_icon", "favicon"}

OpenGraphMap ==
    (<<OG, "title">> :> "title") @@ (<<OG, "url">> :> "url") @@
    (<<OG, "image">> :> "src") @@ (<<OG, "image", "secure_url">> :> "secure_src") @@
    (<<OG, "image", "width">> :> "width") @@ (<<OG, "image", "height">> :> "height") @@
    (<<OG, "image", "type">> :> "type") @@
    (<<OG, "video">> :> "src") @@ (<<OG, "video", "width">> :> "width") @@
    (<<OG, "video", "height">> :> "height") @@ (<<OG, "video", "type">> :> "type")

TwitterMap ==
    (<<TW, "title">> :> "title") @@ (<<TW, "url">> :> "url") @@
    (<<TW, "image">> :> "src") @@ (<<TW, "image", "width">> :> "width") @@
    (<<TW, "image", "height">> :> "height") @@
    (<<TW, "player">> :> "src") @@ (<<TW, "player", "width">> :> "width") @@
    (<<TW, "player", "height">> :> "height")

GenericMap ==
    (<<"description">> :> "description") @@ (<<"keywords">> :> "keywords") @@
    (<<"title">> :> "title")

\* FILTER_MAPS['meta'][source]; prefix is the leading segment(s) the pattern asks for.
MetaFilter(src) ==
    CASE src = "open_graph" ->
            [key |-> "property", prefix |-> {<<OG>>}, sub |-> TRUE, map |-> OpenGraphMap,
             image_key |-> PyStr(<<OG, "image">>), video_key |-> PyStr(<<OG, "video">>)]
      [] src = "twitter_card" ->
            [key |-> "name", prefix |-> {<<TW>>}, sub |-> TRUE, map |-> TwitterMap,
             image_key |-> PyStr(<<TW, "image">>), video_key |-> PyStr(<<TW, "player">>)]
      [] src = "generic" ->
            [key |-> "name", prefix |-> {<<"description">>, <<"keywords">>, <<"title">>},
             sub |-> FALSE, map |-> GenericMap,
             image_key |-> PyStr(<<>>), video_key |-> PyStr(<<>>)]

\* FILTER_MAPS['link'][source]
LinkFilter(src) ==
    CASE src = "touch_icon" ->
            [key |-> "rel", prefix |-> {<<"apple-touch-icon">>}, type |-> "touch_icon"]
      [] src = "favicon" ->
            [key |-> "rel", prefix |-> {<<"shortcut icon">>, <<"icon">>}, type |-> "favicon"]

\* pattern.match(name): the name begins with one of the prefixes (and, for a
\* pattern that ends in ":", goes on with a further segment).
PatternMatches(f, name) ==
    /\ \E p \in f.prefix : StartsWith(name, p)
    /\ ("sub" \in DOMAIN f /\ f.sub) => Len(name) >= 2

\* ------------------------------------------------------------ documents
\* An element: its tag name and its attributes.
Tag(el, at) == [el |-> el, at |-> at]
MetaTag(key, name, value) == Tag("meta", (key :> PyStr(name)) @@ ("content" :> PyStr(value)))
BareMeta(key, name) == Tag("meta", (key :> PyStr(name)))
LinkTag(rel, href) == Tag("link", ("rel" :> PyStr(<<rel>>)) @@ ("href" :> PyStr(href)))
ImgTag(src, w, h) ==
    Tag("img", ("src" :> PyStr(src)) @@ ("width" :> PyStr(w)) @@ ("height" :> PyStr(h)))

TagPool ==
    { MetaTag("property", <<OG, "title">>, <<"T">>),
      MetaTag("property", <<OG, "image">>, AbsImg),
      MetaTag("property", <<OG, "image">>, RelImg),
      MetaTag("property", <<OG, "image">>, <<>>),
      MetaTag("property", <<OG, "image", "secure_url">>, AbsImg),
      MetaTag("property", <<OG, "image", "width">>, <<"7">>),
      MetaTag("property", <<OG, "image", "width">>, <<"a", "b", "c">>),
      MetaTag("property", <<OG, "video">>, AbsImg),
      MetaTag("property", <<OG, "video", "width">>, <<"7">>),
      MetaTag("property", <<OG, "image", "type">>, AbsImg),
      MetaTag("property", <<OG, "video", "type">>, <<"v">>),
      MetaTag("property", <<OG, "site_name">>, <<"S">>),
      MetaTag("name", <<TW, "title">>, <<"W">>),
      MetaTag("name", <<TW, "image">>, AbsImg),
      MetaTag("name", <<TW, "image">>, WwwImg),
      MetaTag("name", <<"title">>, <<"G">>),
      MetaTag("name", <<"keywords">>, <<"a", ",", "b">>),
      BareMeta("name", <<"keywords">>),
      LinkTag("apple-touch-icon", RelImg),
      LinkTag("icon", AbsImg),
      ImgTag(RelImg, <<"7">>, <<"5">>) }

Docs == UNION {[1..n -> TagPool] : n \in 0..MaxTags}

\* Tag.get(name, default)
GetOr(line, name, default) == IF name \in DOMAIN line.at THEN line.at[name] ELSE default
Get(line, name) == GetOr(line, name, PyNone)

\* soup.find_all(el, {f.key: f.pattern})
find_all(sp, el, f) ==
    SelectSeq(sp, LAMBDA e : /\ e.el = el
                             /\ f.key \in DOMAIN e.at
                             /\ e.at[f.key].t = "str"
                             /\ PatternMatches(f, e.at[f.key].s))

\* soup.findAll('img')
findAll(sp, el) == SelectSeq(sp, LAMBDA e : e.el = el)

\* ------------------------------------------------------------ _filter_meta_data
\* How the loop body leaves its variables, and the exception it raised if any.
Outcome(e, d, img, vid) == [exc |-> e, data |-> d, image |-> img, video |-> vid]

\* A variant that leaves out the presence check.
MayWrite_any(meta, prop, d) == prop.s \in DOMAIN meta.map

\* prop in meta_map and not meta_map[prop] in data
MayWrite(meta, prop, d) ==
    /\ prop.s \in DOMAIN meta.map
    /\ ~Has(d, meta.map[prop.s])

\* prop.startswith((image_prop, video_prop)) and prop.endswith(('width', 'height'))
IsDimension(meta, prop) ==
    /\ \/ StartsWith(prop.s, meta.image_key.s)
       \/ StartsWith(prop.s, meta.video_key.s)
    /\ prop.s[Len(prop.s)] \in {"width", "height"}

\* value.startswith(u'http' or u'www')
LooksAbsolute(value) == StartsWith(value.s, PyOr(PyStr(HTTP), PyStr(WWW)).s)

\* The body of the loop for one matched element.
MetaLine(meta, line, d, img, vid) ==
    LET prop == Get(line, meta.key)
        raw == Get(line, "content")
    IN  IF ~MayWrite(meta, prop, d) THEN Outcome("none", d, img, vid)
        ELSE
        LET field == meta.map[prop.s]
            sized == IF IsDimension(meta, prop) THEN convert_to_int(raw) ELSE raw
            keywords == prop.s = <<"keywords">>
        IN  IF keywords /\ sized.t # "str"
            THEN Outcome("AttributeError", d, img, vid)
            ELSE
            LET value == IF keywords THEN split(sized) ELSE sized
            IN  IF /\ Truthy(meta.image_key)
                   /\ StartsWith(prop.s, meta.image_key.s)
                   /\ Truthy(value)
                THEN IF value.t # "str" THEN Outcome("AttributeError", d, img, vid)
                     ELSE IF LooksAbsolute(value)
                          THEN Outcome("none", d, Put(img, field, value), vid)
                          ELSE Outcome("NameError", d, img, vid)
                ELSE IF /\ Truthy(meta.video_key)
                        /\ StartsWith(prop.s, meta.video_key.s)
                        /\ Truthy(value)
                THEN Outcome("none", d, img, Put(vid, field, value))
                ELSE Outcome("none", Put(d, field, value), img, vid)

\* A variant that keeps a type the document gave.
Stamp_keep(meta, img) == IF Has(img, "type") THEN img ELSE Put(img, "type", meta.image_key)

\* image['type'] = image_prop
Stamp(meta, img) == Put(img, "type", meta.image_key)

\* The code after the loop.
MetaFinish(meta, d, img, vid) ==
    LET d1 == IF NonEmpty(img)
              THEN [d EXCEPT !.images = Append(@, Stamp(meta, img))]
              ELSE d
    IN  IF NonEmpty(vid) THEN [d1 EXCEPT !.videos = Append(@, vid)] ELSE d1

\* ------------------------------------------------------------ _filter_link_tag_data
LinkImage(link, line, url) ==
    [src |-> urljoin(url, Get(line, "href")), type |-> PyStr(<<link.type>>)]

filter_link_tag_data(src, sp, d, url) ==
    LET link == LinkFilter(src)
        found == find_all(sp, "link", link)
    IN  [d EXCEPT !.images = @ \o [k \in 1..Len(found) |-> LinkImage(link, found[k], url)]]

\* ------------------------------------------------------------ _find_all_images
BodyImage(el) ==
    LET img == [src |-> Get(el, "src"),
                alt |-> GetOr(el, "alt", PyStr(<<>>)),
                type |-> PyStr(<<"body_image">>)]
        width == convert_to_int(Get(el, "width"))
    IN  IF Truthy(width) THEN Put(img, "width", width) ELSE img

\* image['height'] = height: the element, not the record, gets the height.
BodyElement(el) ==
    LET height == convert_to_int(Get(el, "height"))
    IN  IF el.el = "img" /\ Truthy(height)
        THEN [el EXCEPT !.at = Put(@, "height", height)]
        ELSE el

find_all_images(sp, d) ==
    LET found == findAll(sp, "img")
    IN  [d EXCEPT !.images = @ \o [k \in 1..Len(found) |-> BodyImage(found[k])]]

\* ------------------------------------------------------------ passes, one call each
\* The passes invoked on one result dict and one soup, in the order fetch lists
\* them, any of them left out.  _filter_meta_data advances one matched element
\* per step; an exception ends the run.
PassOrder == <<"open_graph", "twitter_card", "generic", "touch_icon", "favicon", "body_image">>
NewData == [images |-> <<>>, videos |-> <<>>]
NoRecord == [t |-> "no record"]
Unsupplied == [t |-> "unsupplied"]
Options == {"open_graph", "twitter_card", "touch_icon", "favicon", "all_images"}

MetaCall(k) ==
    /\ pc = "idle"
    /\ k >= stage
    /\ PassOrder[k] \in MetaSources
    /\ source' = PassOrder[k]
    /\ html' = find_all(soup, "meta", MetaFilter(PassOrder[k]))
    /\ i' = 1
    /\ image' = EmptyDict
    /\ video' = EmptyDict
    /\ pc' = "meta"
    /\ stage' = k + 1
    /\ UNCHANGED <<soup, data, exc>>
    /\ UNCHANGED fetchVars

MetaStep ==
    /\ pc = "meta"
    /\ i <= Len(html)
    /\ LET r == MetaLine(MetaFilter(source), html[i], data, image, video)
       IN  IF r.exc # "none"
           THEN /\ exc' = r.exc
                /\ pc' = "raised"
                /\ UNCHANGED <<data, image, video, i>>
           ELSE /\ data' = r.data
                /\ image' = r.image
                /\ video' = r.video
                /\ i' = i + 1
                /\ UNCHANGED <<pc, exc>>
    /\ UNCHANGED <<soup, stage, source, html>>
    /\ UNCHANGED fetchVars

MetaEnd ==
    /\ pc = "meta"
    /\ i > Len(html)
    /\ data' = MetaFinish(MetaFilter(source), data, image, video)
    /\ pc' = "idle"
    /\ UNCHANGED <<soup, stage, source, html, i, image, video, exc>>
    /\ UNCHANGED fetchVars

LinkCall(k) ==
    /\ pc = "idle"
    /\ k >= stage
    /\ PassOrder[k] \in LinkSources
    /\ source' = PassOrder[k]
    /\ data' = filter_link_tag_data(PassOrder[k], soup, data, PyStr(PageUrl))
    /\ stage' = k + 1
    /\ UNCHANGED <<soup, pc, html, i, image, video, exc>>
    /\ UNCHANGED fetchVars

ImagesCall ==
    /\ pc = "idle"
    /\ stage <= Len(PassOrder)
    /\ source' = "body_image"
    /\ data' = find_all_images(soup, data)
    /\ soup' = [k \in 1..Len(soup) |-> BodyElement(soup[k])]
    /\ stage' = Len(PassOrder) + 1
    /\ UNCHANGED <<pc, html, i, image, video, exc>>
    /\ UNCHANGED fetchVars

\* ------------------------------------------------------------ fetch
\* The defaults of fetch's keyword parameters.
Defaults ==
    [open_graph |-> TRUE, twitter_card |-> TRUE, touch_icon |-> TRUE,
     favicon |-> TRUE, all_images |-> FALSE]

\* The value fetch's parameter o holds on entry.
Param(a, o) == IF a[o] = Unsupplied THEN PyBool(Defaults[o]) ELSE a[o]

merge_settings(fetch_setting, class_setting) ==
    IF fetch_setting = PyNone THEN class_setting
    ELSE IF class_setting = PyNone THEN fetch_setting
    ELSE fetch_setting

\* A variant that tests for None alone.
NoContent_none(text) == text = PyNone

\* if not html
NoContent(text) == ~Truthy(text)

\* The parameters _filter_meta_data declares after self, and the arguments
\* fetch passes to it.
MetaParams == <<"source", "soup", "data">>
MetaCallArgs == <<"source", "soup", "data", "url">>

\* _filter_meta_data run to its end: the loop over every matched element.
RECURSIVE MetaLoop(_, _, _, _, _, _)
MetaLoop(meta, found, k, d, img, vid) ==
    IF k > Len(found) THEN [exc |-> "none", data |-> MetaFinish(meta, d, img, vid)]
    ELSE LET r == MetaLine(meta, found[k], d, img, vid)
         IN  IF r.exc # "none" THEN [exc |-> r.exc, data |-> d]
             ELSE MetaLoop(meta, found, k + 1, r.data, r.image, r.video)

\* self._filter_meta_data(*argv)
filter_meta_data(argv, src, sp, d) ==
    IF Len(argv) # Len(MetaParams) THEN [exc |-> "TypeError", data |-> d]
    ELSE MetaLoop(MetaFilter(src), find_all(sp, "meta", MetaFilter(src)), 1,
                  d, EmptyDict, EmptyDict)

\* The condition fetch puts on pass p.
PassEnabled(p, o) ==
    CASE p = "generic" -> TRUE
      [] p = "body_image" -> Truthy(o["all_images"])
      [] OTHER -> Truthy(o[p])

\* The passes of fetch from the k-th on.
RECURSIVE RunPasses(_, _, _, _, _)
RunPasses(k, o, sp, d, url) ==
    IF k > Len(PassOrder) THEN [exc |-> "none", data |-> d, soup |-> sp, at |-> k]
    ELSE
    LET p == PassOrder[k]
    IN  IF ~PassEnabled(p, o) THEN RunPasses(k + 1, o, sp, d, url)
        ELSE IF p \in MetaSources
        THEN LET r == filter_meta_data(MetaCallArgs, p, sp, d)
             IN  IF r.exc # "none"
                 THEN [exc |-> r.exc, data |-> r.data, soup |-> sp, at |-> k]
                 ELSE RunPasses(k + 1, o, sp, r.data, url)
        ELSE IF p \in LinkSources
        THEN RunPasses(k + 1, o, sp, filter_link_tag_data(p, sp, d, url), url)
        ELSE RunPasses(k + 1, o, [j \in 1..Len(sp) |-> BodyElement(sp[j])],
                       find_all_images(sp, d), url)

\* soup.title.string; soup.title is None when the document has no title element.
Titles(sp) == findAll(sp, "title")

\* The lines of fetch after the passes.
PostProcess(r, url) ==
    LET d1 == IF ~Has(r.data, "url") THEN Put(r.data, "url", url) ELSE r.data
    IN  IF Has(d1, "title") THEN [exc |-> "none", data |-> d1]
        ELSE IF Titles(r.soup) = <<>> THEN [exc |-> "AttributeError", data |-> d1]
        ELSE [exc |-> "none", data |-> Put(d1, "title", Get(Titles(r.soup)[1], "string"))]

\* BeautifulSoup(clean_text(html), parser): the elements of the text.
Parse(text) == text.s

TitleTag(text) == Tag("title", ("string" :> PyStr(text)))
DocBoth ==
    << MetaTag("property", <<OG, "title">>, <<"T">>),
       MetaTag("name", <<"title">>, <<"G">>),
       TitleTag(<<"H">>) >>
DocBare == << MetaTag("name", <<"keywords">>, <<"a", ",", "b">>) >>

RequestException == [t |-> "RequestException"]
\* What requests.get(url) may produce: a failure, or a response with a text.
Responses == {RequestException, PyNone, PyStr(<<>>), PyStr(DocBoth), PyStr(DocBare)}
ArgValues == {Unsupplied, PyNone, PyBool(TRUE), PyBool(FALSE)}
AttrValues == {PyNone, PyBool(TRUE), PyBool(FALSE)}

\* lassie.open_graph = v, and so on: the instance-level settings.  fetch keeps
\* nothing from one call to the next, so a run configures the instance and then
\* makes one call.
SetAttr(o, v) ==
    /\ pc = "idle"
    /\ nsets < MaxSets
    /\ attrs' = [attrs EXCEPT ![o] = v]
    /\ nsets' = nsets + 1
    /\ pc' = "idle"
    /\ UNCHANGED <<args, opts, content, ret, exc>>
    /\ UNCHANGED passVars

Fetch(a, resp) ==
    /\ pc = "idle"
    /\ pc' = "fetched"
    /\ args' = a
    /\ opts' = [o \in Options |-> merge_settings(Param(a, o), attrs[o])]
    /\ content' = resp
    /\ UNCHANGED <<attrs, nsets, html, i, image, video>>
    /\ IF resp = RequestException \/ NoContent(resp)
       THEN /\ exc' = "LassieError"
            /\ ret' = NoRecord
            /\ soup' = <<>>
            /\ data' = NewData
            /\ stage' = 1
            /\ source' = "none"
       ELSE LET r == RunPasses(1, opts', Parse(resp), NewData, PyStr(PageUrl))
                out == IF r.exc # "none" THEN r ELSE PostProcess(r, PyStr(PageUrl))
            IN  /\ exc' = out.exc
                /\ ret' = IF out.exc = "none" THEN out.data ELSE NoRecord
                /\ soup' = r.soup
                /\ data' = out.data
                /\ stage' = r.at
                /\ source' = IF r.at <= Len(PassOrder) THEN PassOrder[r.at] ELSE "none"

InitFetch ==
    /\ attrs = [o \in Options |-> PyNone]
    /\ args = [o \in Options |-> Unsupplied]
    /\ opts = [o \in Options |-> PyNone]
    /\ content = PyNone
    /\ ret = NoRecord
    /\ nsets = 0
    /\ soup = <<>>
    /\ data = NewData
    /\ pc = "idle"
    /\ stage = 1
    /\ source = "none"
    /\ html = <<>>
    /\ i = 1
    /\ image = EmptyDict
    /\ video = EmptyDict
    /\ exc = "none"

\* The instance and its fetch method.
Configure == pc = "idle" /\ \E o \in Options, v \in AttrValues : SetAttr(o, v)
Call == pc = "idle" /\ \E a \in [Options -> ArgValues], resp \in Responses : Fetch(a, resp)

NextFetch == Configure \/ Call

SpecFetch == InitFetch /\ [][NextFetch]_vars

Init ==
    /\ attrs = [o \in Options |-> PyNone]
    /\ args = [o \in Options |-> Unsupplied]
    /\ opts = [o \in Options |-> PyNone]
    /\ content = PyNone
    /\ ret = NoRecord
    /\ nsets = 0
    /\ soup \in Docs
    /\ data = NewData
    /\ pc = "idle"
    /\ stage = 1
    /\ source = "none"
    /\ html = <<>>
    /\ i = 1
    /\ image = EmptyDict
    /\ video = EmptyDict
    /\ exc = "none"

Next ==
    \/ \E k \in 1..Len(PassOrder) : MetaCall(k)
    \/ MetaStep
    \/ MetaEnd
    \/ \E k \in 1..Len(PassOrder) : LinkCall(k)
    \/ ImagesCall

Spec == Init /\ [][Next]_vars

\* ------------------------------------------------------------ the claims
Scalars(d) == DOMAIN d \ {"images", "videos"}
Fetched == pc = "fetched"
\* The last fetch got a document to parse.
GotDocument == Fetched /\ content.t = "str" /\ content.s # <<>>
AllEnabled == \A o \in Options : Truthy(opts[o])

\* C1: with every pass enabled, a field supplied by both an Open Graph tag and a
\* generic tag has, in the record fetch returns, the Open Graph value.
C1_PriorityLaw ==
    (GotDocument /\ content.s = DocBoth /\ AllEnabled)
        => (ret # NoRecord /\ ret["title"] = PyStr(<<"T">>))

\* C2: a step never changes or removes a scalar key the result already holds.
C2_NonOverwrite ==
    [][\A k \in Scalars(data) : k \in Scalars(data') /\ data'[k] = data[k]]_vars

\* C2 witness: the loop has just passed an element whose field an earlier pass
\* had set to another value.
C2_Witness ==
    /\ pc = "meta"
    /\ i > 1
    /\ source = "generic"
    /\ LET prop == Get(html[i - 1], "name")
       IN  /\ prop.s \in DOMAIN GenericMap
           /\ Has(data, GenericMap[prop.s])
           /\ data[GenericMap[prop.s]] = PyStr(<<"T">>)
           /\ Get(html[i - 1], "content") = PyStr(<<"G">>)

\* C3: the step that ends a meta pass appends one image record exactly when an
\* image property was collected, and one video record exactly when a video
\* property was collected.
C3_Aggregation ==
    [][(pc = "meta" /\ pc' # "meta") =>
          /\ Len(data'.images) = Len(data.images) + (IF NonEmpty(image) THEN 1 ELSE 0)
          /\ Len(data'.videos) = Len(data.videos) + (IF NonEmpty(video) THEN 1 ELSE 0)]_vars

\* A field-level anomaly: no content attribute, an empty value, or a width or
\* height that is no number.
Anomalous(meta, line) ==
    \/ ~Truthy(Get(line, "content"))
    \/ /\ IsDimension(meta, Get(line, meta.key))
       /\ convert_to_int(Get(line, "content")) = PyNone

\* C4: a meta pass does not fail on an element with a field-level anomaly.
C4_Lenient ==
    (pc = "raised" /\ source \in MetaSources)
        => ~Anomalous(MetaFilter(source), html[i])

\* C5: empty content ends fetch with LassieError before anything is parsed or
\* extracted, and no record is returned.
C5_EmptyContentFatal ==
    (Fetched /\ content # RequestException /\ ~Truthy(content))
        => /\ exc = "LassieError"
           /\ ret = NoRecord
           /\ soup = <<>>
           /\ stage = 1

\* C5 witness: a fetch whose response text was the empty string has raised.
C5_Witness == Fetched /\ content = PyStr(<<>>) /\ exc = "LassieError"

\* C6: the option fetch uses is the caller's value when one is supplied and the
\* instance's attribute when none is.
C6_OptionResolution ==
    Fetched =>
        \A o \in Options :
            /\ args[o] \notin {Unsupplied, PyNone} => opts[o] = args[o]
            /\ (args[o] = Unsupplied /\ attrs[o] # PyNone) => opts[o] = attrs[o]

\* C7: for a document with content fetch returns a record that holds url and
\* title: the input URL and the title element's text where no pass set them.
C7_FallbackFields ==
    GotDocument =>
        /\ ret # NoRecord
        /\ Has(ret, "url")
        /\ Has(ret, "title")

\* C8: every image record's src is an absolute URL.
C8_AbsoluteSrc ==
    \A k \in 1..Len(data.images) :
        Has(data.images[k], "src") => IsAbsolute(data.images[k]["src"])

\* C9: the generic pass runs on every fetch that got a document.
C9_GenericAlwaysRuns ==
    GotDocument => stage > (CHOOSE k \in 1..Len(PassOrder) : PassOrder[k] = "generic")

\* The type tags the claim lists.
ClaimedTypes ==
    {PyStr(<<"og">>), PyStr(<<"twitter">>), PyStr(<<"touch_icon">>),
     PyStr(<<"favicon">>), PyStr(<<"body_image">>)}

HasElement(el, key, prefix) ==
    \E k \in 1..Len(soup) :
        /\ soup[k].el = el
        /\ key \in DOMAIN soup[k].at
        /\ soup[k].at[key].t = "str"
        /\ StartsWith(soup[k].at[key].s, prefix)

====
